---- MODULE Spec2Model ----
(***************************************************************************)
(* A model of piff/gp_interp.py: the GPInterp interpolator (solve,         *)
(* interpolate, interpolateList, initialize) and the two kernels           *)
(* EmpiricalKernel and AnisotropicRBF.                                     *)
(*                                                                         *)
(* numpy arrays are records [shape, data]: shape is the tuple of           *)
(* dimensions and data the elements in row-major order.  The numbers a     *)
(* Gaussian process or a PCA computes are not evaluated: an element of a   *)
(* predicted array is a record naming the computation that produced it     *)
(* (which fit, at which covariates, which component).                      *)
(***************************************************************************)
EXTENDS Integers, Sequences, FiniteSets, TLC

VARIABLES
    attr_interp,   \* GPInterp.attr_interp
    kernel,        \* GPInterp.kernel
    npca,          \* GPInterp.npca
    gp,            \* GPInterp.gp, the GaussianProcessRegressor's fitted state
    pca,           \* GPInterp._pca, absent until _fit creates it
    heap,          \* the Star objects: the caller's, then those the last call returned
    call,          \* the last call on the GPInterp and how it ended
    emp,           \* an EmpiricalKernel under construction / constructed
    empCall,       \* the last EmpiricalKernel.__call__ and how it ended
    rbf,           \* an AnisotropicRBF kernel
    rbfCall        \* the last operation on the AnisotropicRBF and how it ended

vars == <<attr_interp, kernel, npca, gp, pca, heap, call, emp, empCall, rbf, rbfCall>>

interpVars == <<attr_interp, kernel, npca, gp, pca, heap, call>>
empVars == <<emp, empCall>>
rbfVars == <<rbf, rbfCall>>

(***************************************************************************)
(* Bounds of the model.                                                    *)
(***************************************************************************)
MaxLen == 2     \* longest list of stars passed to one call
MaxNpca == 2    \* largest npca an interpolator is built with
Dim == 2        \* length of a fitted star's parameter vector
MaxPts == 2     \* most rows of the covariate matrix X a kernel is called with

None == [none |-> TRUE]
NaN == 99       \* a covariate that is not a finite number

Min(a, b) == IF a < b THEN a ELSE b

(***************************************************************************)
(* numpy arrays.                                                           *)
(***************************************************************************)
RECURSIVE Prod(_)
Prod(s) == IF s = <<>> THEN 1 ELSE Head(s) * Prod(Tail(s))

RECURSIVE Concat(_)
Concat(rows) == IF rows = <<>> THEN <<>> ELSE Head(rows).data \o Concat(Tail(rows))

\* np.array(list of equally shaped arrays)
NpArray(rows) ==
    IF rows = <<>> THEN [shape |-> <<0>>, data |-> <<>>]
    ELSE [shape |-> <<Len(rows)>> \o rows[1].shape, data |-> Concat(rows)]

\* iterating an array of at least one dimension: its sub-arrays along axis 0
Rows(a) ==
    LET sz == Prod(Tail(a.shape))
    IN [i \in 1..a.shape[1] |->
          [shape |-> Tail(a.shape),
           data |-> SubSeq(a.data, (i - 1) * sz + 1, i * sz)]]

\* sklearn's check_array: two dimensions, at least one row and one column, all finite
CheckArray(a) ==
    /\ Len(a.shape) = 2
    /\ a.shape[1] >= 1
    /\ a.shape[2] >= 1
    /\ \A i \in 1..Len(a.data) : a.data[i] # NaN

(***************************************************************************)
(* Star and StarFit (piff/star.py).                                        *)
(***************************************************************************)
DefaultFlux == 1

\* StarFit(params): a fit record holding params, the other fields at their defaults
StarFit(params) == [params |-> params, flux |-> DefaultFlux]

\* fit.newParams(p): a new fit record with fit's other fields and the params p
newParams(fit, p) == [fit EXCEPT !.params = p]

\* Star(data, fit)
Star(data, fit) == [data |-> data, fit |-> fit]

Free == [free |-> TRUE]

\* the Stars the caller holds: fitted ones, one never fitted, one whose covariate
\* is not finite; the data of each holds every attribute of attr_interp
Obs(i, k) == [src |-> "obs", star |-> i, k |-> k]
ObsParams(i) == [shape |-> <<Dim>>, data |-> [k \in 1..Dim |-> Obs(i, k)]]
PoolStars ==
    << Star([u |-> 0, v |-> 0], [params |-> ObsParams(1), flux |-> 7]),
       Star([u |-> 1, v |-> 0], None),
       Star([u |-> NaN, v |-> 0], [params |-> ObsParams(3), flux |-> 7]),
       Star([u |-> 0, v |-> 1], [params |-> ObsParams(4), flux |-> 7]) >>

NPool == Len(PoolStars)
PoolIds == 1..NPool
HeapIds == 1..(NPool + MaxLen)

\* the lists of at most n distinct elements of S
RECURSIVE SeqsUpTo(_, _)
SeqsUpTo(S, n) ==
    IF n = 0 THEN {<<>>}
    ELSE LET shorter == SeqsUpTo(S, n - 1)
         IN shorter \cup {Append(s, x) : s \in {t \in shorter : Len(t) = n - 1}, x \in S}

Distinct(s) == \A i, j \in 1..Len(s) : i # j => s[i] # s[j]

StarLists == {s \in SeqsUpTo(PoolIds, MaxLen) : Distinct(s)}

(***************************************************************************)
(* sklearn: GaussianProcessRegressor and PCA, as far as GPInterp uses them. *)
(***************************************************************************)
UnfittedGP == [fitted |-> FALSE]

\* a computed element that is not a finite number
NaNValue == [src |-> "nan"]

\* gp.fit(X, y): validates X and y (finite, as many rows in each), then keeps them
\* as the training set
GPFit(g, X, y) ==
    IF /\ CheckArray(X)
       /\ Len(y.shape) = 2 /\ y.shape[1] = X.shape[1] /\ y.shape[2] >= 1
       /\ \A i \in 1..Len(y.data) : y.data[i] # NaNValue
    THEN [err |-> "", gp |-> [fitted |-> TRUE, X |-> X, y |-> y]]
    ELSE [err |-> "ValueError", gp |-> g]

Zero == [src |-> "prior"]
\* component k of the predictive mean at the covariates x of the regressor trained
\* at g.X
GPMean(g, x, k) == [src |-> "gp", X |-> g.X.data, at |-> x, k |-> k]

\* gp.predict(Xstar): validates Xstar; the prior mean (zeros, one per row) when
\* the regressor was never fitted, the predictive mean otherwise
GPPredict(g, Xstar) ==
    IF ~CheckArray(Xstar) THEN [err |-> "ValueError"]
    ELSE IF ~g.fitted
    THEN [err |-> "", y |-> [shape |-> <<Xstar.shape[1]>>,
                              data |-> [i \in 1..Xstar.shape[1] |-> Zero]]]
    ELSE IF Xstar.shape[2] # g.X.shape[2] THEN [err |-> "ValueError"]
    ELSE LET n == Xstar.shape[1]
             d == g.y.shape[2]
             xs == Rows(Xstar)
         IN [err |-> "",
             y |-> [shape |-> <<n, d>>,
                    data |-> [j \in 1..(n * d) |->
                                GPMean(g, xs[((j - 1) \div d) + 1].data, ((j - 1) % d) + 1)]]]

AbsentPCA == [present |-> FALSE]

\* PCA(n_components=n, whiten=True)
NewPCA(n) == [present |-> TRUE, fitted |-> FALSE, n_components |-> n]

\* pca.fit(y)
PCAFit(p, y) ==
    IF Len(y.shape) = 2 /\ y.shape[1] >= 1 /\ y.shape[2] >= 1
       /\ p.n_components <= Min(y.shape[1], y.shape[2])
    THEN [err |-> "", pca |-> [present |-> TRUE, fitted |-> TRUE,
                               n_components |-> p.n_components,
                               y |-> y.data, n_samples |-> y.shape[1],
                               n_features |-> y.shape[2]]]
    ELSE [err |-> "ValueError", pca |-> p]

\* pca.transform(y) of a fitted pca, y of shape (n, n_features).  Whitening divides
\* by the explained variance S^2 / (n_samples - 1), not a number for a PCA fitted
\* on one sample
PCATransform(p, y) ==
    LET n == y.shape[1]
        c == p.n_components
        ys == Rows(y)
    IN [shape |-> <<n, c>>,
        data |-> [j \in 1..(n * c) |->
                    IF p.n_samples = 1 THEN NaNValue
                    ELSE [src |-> "pca.transform", fit |-> p.y,
                          of |-> ys[((j - 1) \div c) + 1].data, k |-> ((j - 1) % c) + 1]]]

\* pca.inverse_transform(Y) = dot(Y, scaled components) + mean
PCAInverse(p, Y) ==
    IF ~p.fitted THEN [err |-> "NotFittedError"]
    ELSE IF Len(Y.shape) = 2 /\ Y.shape[2] = p.n_components
    THEN LET n == Y.shape[1]
             d == p.n_features
             ys == Rows(Y)
         IN [err |-> "",
             y |-> [shape |-> <<n, d>>,
                    data |-> [j \in 1..(n * d) |->
                                [src |-> "pca.inverse_transform", fit |-> p.y,
                                 of |-> ys[((j - 1) \div d) + 1].data,
                                 k |-> ((j - 1) % d) + 1]]]]
    ELSE IF Len(Y.shape) = 1 /\ Y.shape[1] = p.n_components
    THEN [err |-> "",
          y |-> [shape |-> <<p.n_features>>,
                 data |-> [k \in 1..p.n_features |->
                             [src |-> "pca.inverse_transform", fit |-> p.y,
                              of |-> Y.data, k |-> k]]]]
    ELSE [err |-> "ValueError"]

(***************************************************************************)
(* GPInterp.  The operators take the interpolator's gp and _pca (g, p) and *)
(* the heap h of Star objects and return what the method leaves behind.    *)
(***************************************************************************)
\* GPInterp.__init__: the regressor is created unfitted, no _pca attribute is set
InitInterp(k, n) ==
    /\ attr_interp = <<"u", "v">>
    /\ kernel = k
    /\ npca = n
    /\ gp = UnfittedGP
    /\ pca = AbsentPCA

HasProperties(star) == \A k \in 1..Len(attr_interp) : attr_interp[k] \in DOMAIN star.data

getProperties(star) ==
    [shape |-> <<Len(attr_interp)>>,
     data |-> [k \in 1..Len(attr_interp) |-> star.data[attr_interp[k]]]]

\* _fit with the regressor's error swallowed: the fit is attempted and the call
\* returns normally whatever happened
_fit_swallowed(g, p, X, y) ==
    LET r == GPFit(g, X, y)
    IN [err |-> "", gp |-> r.gp, pca |-> p]

\* GPInterp._fit: the new PCA is stored in self._pca before it is fitted, and the
\* regressor is fitted last
_fit(g, p, X, y) ==
    IF npca > 0
    THEN LET f == PCAFit(NewPCA(npca), y)
         IN IF f.err # "" THEN [err |-> f.err, gp |-> g, pca |-> f.pca]
            ELSE LET r == GPFit(g, X, PCATransform(f.pca, y))
                 IN [err |-> r.err, gp |-> r.gp, pca |-> f.pca]
    ELSE LET r == GPFit(g, X, y)
         IN [err |-> r.err, gp |-> r.gp, pca |-> p]

\* GPInterp._predict
_predict(g, p, Xstar) ==
    LET r == GPPredict(g, Xstar)
    IN IF r.err # "" THEN r
       ELSE IF npca > 0
       THEN IF ~p.present THEN [err |-> "AttributeError"] ELSE PCAInverse(p, r.y)
       ELSE r

\* GPInterp.solve
solve(g, p, h, ids) ==
    LET stars == [i \in 1..Len(ids) |-> h[ids[i]]]
    IN IF \E i \in 1..Len(ids) : ~HasProperties(stars[i])
       THEN [err |-> "KeyError", gp |-> g, pca |-> p]
       ELSE IF \E i \in 1..Len(ids) : stars[i].fit = None
       THEN [err |-> "AttributeError", gp |-> g, pca |-> p]
       ELSE _fit(g, p,
                 NpArray([i \in 1..Len(ids) |-> getProperties(stars[i])]),
                 NpArray([i \in 1..Len(ids) |-> stars[i].fit.params]))

\* the heap with the Stars of an earlier result dropped
Pool(h) == [i \in HeapIds |-> IF i \in PoolIds THEN h[i] ELSE Free]

\* interpolateList updating the stars it is given: the new fit is stored in the
\* input Star, which is returned
interpolateList_inplace(g, p, h, ids) ==
    LET stars == [i \in 1..Len(ids) |-> h[ids[i]]]
        r == _predict(g, p, NpArray([i \in 1..Len(ids) |-> getProperties(stars[i])]))
    IN IF r.err # "" THEN [err |-> r.err, heap |-> h, ret |-> <<>>]
       ELSE LET n == Min(r.y.shape[1], Len(ids))
                fit(i) == IF stars[i].fit = None
                          THEN StarFit(r.y)
                          ELSE newParams(stars[i].fit, Rows(r.y)[i])
            IN [err |-> "",
                heap |-> [j \in HeapIds |->
                            IF \E i \in 1..n : ids[i] = j
                            THEN LET i == CHOOSE i \in 1..n : ids[i] = j
                                 IN [h[j] EXCEPT !.fit = fit(i)]
                            ELSE h[j]],
                ret |-> [i \in 1..n |-> ids[i]]]

\* GPInterp.interpolateList: zip(y, stars) pairs the rows of y with the stars; each
\* pair gives a new Star object (a new id of the heap)
interpolateList(g, p, h, ids) ==
    LET stars == [i \in 1..Len(ids) |-> h[ids[i]]]
    IN IF \E i \in 1..Len(ids) : ~HasProperties(stars[i])
       THEN [err |-> "KeyError", heap |-> h, ret |-> <<>>]
       ELSE LET r == _predict(g, p, NpArray([i \in 1..Len(ids) |-> getProperties(stars[i])]))
            IN IF r.err # "" THEN [err |-> r.err, heap |-> h, ret |-> <<>>]
               ELSE LET y == r.y
                        n == Min(y.shape[1], Len(ids))
                        fit(i) == IF stars[i].fit = None
                                  THEN StarFit(y)
                                  ELSE newParams(stars[i].fit, Rows(y)[i])
                    IN [err |-> "",
                        heap |-> [j \in HeapIds |->
                                    IF j \in PoolIds THEN h[j]
                                    ELSE IF j - NPool <= n
                                    THEN Star(stars[j - NPool].data, fit(j - NPool))
                                    ELSE Free],
                        ret |-> [i \in 1..n |-> NPool + i]]

\* GPInterp.interpolate: interpolateList([star])[0]
interpolate(g, p, h, id) ==
    LET r == interpolateList(g, p, h, <<id>>)
    IN IF r.err # "" THEN r
       ELSE IF r.ret = <<>> THEN [err |-> "IndexError", heap |-> r.heap, ret |-> <<>>]
       ELSE [err |-> "", heap |-> r.heap, ret |-> <<r.ret[1]>>]

\* GPInterp.initialize: solve, then interpolateList on the same stars
initialize(g, p, h, ids) ==
    LET s == solve(g, p, h, ids)
    IN IF s.err # "" THEN [err |-> s.err, gp |-> s.gp, pca |-> s.pca, heap |-> h, ret |-> <<>>]
       ELSE LET r == interpolateList(s.gp, s.pca, h, ids)
            IN [err |-> r.err, gp |-> s.gp, pca |-> s.pca, heap |-> r.heap, ret |-> r.ret]

NoCall == [op |-> "", stars |-> <<>>, err |-> "", ret |-> <<>>]

Solve(ids) ==
    \E r \in {solve(gp, pca, Pool(heap), ids)} :
       /\ gp' = r.gp
       /\ pca' = r.pca
       /\ heap' = Pool(heap)
       /\ call' = [op |-> "solve", stars |-> ids, err |-> r.err, ret |-> <<>>]
       /\ UNCHANGED <<attr_interp, kernel, npca, emp, empCall, rbf, rbfCall>>

\* the wrong interpolateList: an online update, the regressor is refitted on the
\* stars it has just been asked about
InterpolateList_online(ids) ==
    \E r \in {interpolateList(gp, pca, Pool(heap), ids)} :
       /\ heap' = r.heap
       /\ call' = [op |-> "interpolateList", stars |-> ids, err |-> r.err, ret |-> r.ret]
       /\ gp' = IF r.err = "" /\ gp.fitted
                THEN [gp EXCEPT !.X = NpArray([i \in 1..Len(ids) |->
                                                 getProperties(PoolStars[ids[i]])])]
                ELSE gp
       /\ UNCHANGED <<attr_interp, kernel, npca, pca, emp, empCall, rbf, rbfCall>>

InterpolateList(ids) ==
    \E r \in {interpolateList(gp, pca, Pool(heap), ids)} :
       /\ heap' = r.heap
       /\ call' = [op |-> "interpolateList", stars |-> ids, err |-> r.err, ret |-> r.ret]
       /\ UNCHANGED <<attr_interp, kernel, npca, gp, pca, emp, empCall, rbf, rbfCall>>

Interpolate(id) ==
    \E r \in {interpolate(gp, pca, Pool(heap), id)} :
       /\ heap' = r.heap
       /\ call' = [op |-> "interpolate", stars |-> <<id>>, err |-> r.err, ret |-> r.ret]
       /\ UNCHANGED <<attr_interp, kernel, npca, gp, pca, emp, empCall, rbf, rbfCall>>

Initialize(ids) ==
    \E r \in {initialize(gp, pca, Pool(heap), ids)} :
       /\ gp' = r.gp
       /\ pca' = r.pca
       /\ heap' = r.heap
       /\ call' = [op |-> "initialize", stars |-> ids, err |-> r.err, ret |-> r.ret]
       /\ UNCHANGED <<attr_interp, kernel, npca, emp, empCall, rbf, rbfCall>>


(***************************************************************************)
(* The kernels, before any is constructed.                                 *)
(***************************************************************************)
NoEmp == [constructed |-> FALSE]
NoEmpCall == [op |-> ""]
NoRbf == [constructed |-> FALSE]
NoRbfCall == [op |-> ""]

(***************************************************************************)
(* Inputs of the kernels: covariate matrices of nd columns with up to n    *)
(* rows, and single points (one-dimensional arrays).                       *)
(***************************************************************************)
Coords == {0, 1}

Points(nd) == [1..nd -> Coords]

Matrices(nd, n) ==
    {[shape |-> <<Len(rows), nd>>, data |-> Concat([i \in 1..Len(rows) |-> [data |-> rows[i]]])] :
        rows \in SeqsUpTo(Points(nd), n) \ {<<>>}}

Vectors(nd) == {[shape |-> <<nd>>, data |-> pt] : pt \in Points(nd)}

\* np.atleast_2d
atleast_2d(a) == IF Len(a.shape) = 1 THEN [shape |-> <<1>> \o a.shape, data |-> a.data] ELSE a

\* a[i, j] of a two-dimensional array (i, j counted from 0)
At(a, i, j) == a.data[i * a.shape[2] + j + 1]

(***************************************************************************)
(* EmpiricalKernel.                                                        *)
(***************************************************************************)
Abs(x) == IF x < 0 THEN -x ELSE x

\* the functions a caller wraps: of two coordinate differences, elementwise
Fns == {"delta", "const1", "tent2", "zero"}

fn(f, dx, dy) ==
    CASE f = "delta" -> IF dx = 0 /\ dy = 0 THEN 1 ELSE 0
      [] f = "const1" -> 1
      [] f = "tent2" -> IF Abs(dx) + Abs(dy) >= 2 THEN 0 ELSE 2 - Abs(dx) - Abs(dy)
      [] f = "zero" -> 0

\* the wrong __init__: the function is stored and never checked
EmpiricalKernel_init_unchecked(f) ==
    [err |-> "", self |-> [constructed |-> TRUE, fn |-> f], fn_evals |-> 0]

\* EmpiricalKernel.__init__: the instance exists for the caller only if the
\* assertion passes
EmpiricalKernel_init(f) ==
    IF fn(f, 0, 0) = 1
    THEN [err |-> "", self |-> [constructed |-> TRUE, fn |-> f], fn_evals |-> 1]
    ELSE [err |-> "AssertionError", fn_evals |-> 1]

\* the wrong __call__: the covariance is computed before eval_gradient is looked at
EmpiricalKernel_call_late(self, X0, Y0, eval_gradient) ==
    LET X == atleast_2d(X0)
        Y == IF Y0 = None THEN X ELSE Y0
    IN IF Len(Y.shape) # 2 THEN [err |-> "IndexError", ret |-> None, fn_evals |-> 0]
       ELSE IF eval_gradient THEN [err |-> "RuntimeError", ret |-> None, fn_evals |-> 1]
       ELSE [err |-> "", fn_evals |-> 1,
             ret |-> [shape |-> <<X.shape[1], Y.shape[1]>>,
                      data |-> [j \in 1..(X.shape[1] * Y.shape[1]) |-> 0]]]

\* EmpiricalKernel.__call__: xshift and yshift are the outer differences of the two
\* columns; fn is applied once, to the two arrays
EmpiricalKernel_call(self, X0, Y0, eval_gradient) ==
    IF eval_gradient THEN [err |-> "RuntimeError", ret |-> None, fn_evals |-> 0]
    ELSE LET X == atleast_2d(X0)
             Y == IF Y0 = None THEN X ELSE Y0
         IN IF Len(Y.shape) # 2 THEN [err |-> "IndexError", ret |-> None, fn_evals |-> 0]
            ELSE LET p == X.shape[1]
                     q == Y.shape[1]
                 IN [err |-> "", fn_evals |-> 1,
                     ret |-> [shape |-> <<p, q>>,
                              data |-> [j \in 1..(p * q) |->
                                  LET i1 == (j - 1) \div q
                                      i2 == (j - 1) % q
                                  IN fn(self.fn, At(X, i1, 0) - At(Y, i2, 0),
                                                 At(X, i1, 1) - At(Y, i2, 1))]]]

EmpInit(f) ==
    \E r \in {EmpiricalKernel_init(f)} :
       /\ emp' = IF r.err = "" THEN r.self ELSE emp
       /\ empCall' = [op |-> "__init__", fn |-> f, err |-> r.err, fn_evals |-> r.fn_evals]
       /\ UNCHANGED <<interpVars, rbfVars>>

EmpCall(X, Y, eval_gradient) ==
    /\ emp.constructed
    /\ \E r \in {EmpiricalKernel_call(emp, X, Y, eval_gradient)} :
          empCall' = [op |-> "__call__", X |-> X, Y |-> Y, eval_gradient |-> eval_gradient,
                      err |-> r.err, ret |-> r.ret, fn_evals |-> r.fn_evals]
    /\ UNCHANGED <<emp, interpVars, rbfVars>>

(***************************************************************************)
(* Spec: one GPInterp and the calls a driver makes on it.                  *)
(***************************************************************************)
Kernels == {"AnisotropicRBF"}

Init ==
    /\ \E k \in Kernels, n \in 0..MaxNpca : InitInterp(k, n)
    /\ heap = [i \in HeapIds |-> IF i \in PoolIds THEN PoolStars[i] ELSE Free]
    /\ call = NoCall
    /\ emp = NoEmp
    /\ empCall = NoEmpCall
    /\ rbf = NoRbf
    /\ rbfCall = NoRbfCall

Next ==
    \/ \E ids \in StarLists : Solve(ids)
    \/ \E ids \in StarLists : InterpolateList(ids)
    \/ \E id \in PoolIds : Interpolate(id)
    \/ \E ids \in StarLists : Initialize(ids)

Spec == Init /\ [][Next]_vars


(***************************************************************************)
(* Exact arithmetic for AnisotropicRBF.  A number is a fraction <<n, d>>   *)
(* in lowest terms, d > 0.  exp is modelled on the integers by the powers  *)
(* of 3/2 (positive, exp(0) = 1, exp(a + b) = exp(a) * exp(b), no integer  *)
(* value but exp(0)), log is its inverse, and the square root is taken of  *)
(* squares of fractions only.                                              *)
(***************************************************************************)
RECURSIVE GCD(_, _)
GCD(a, b) == IF b = 0 THEN a ELSE GCD(b, a % b)

RNorm(n, d) ==
    LET g == GCD(Abs(n), Abs(d))
    IN IF d < 0 THEN <<(0 - n) \div g, (0 - d) \div g>> ELSE <<n \div g, d \div g>>

R(n) == <<n, 1>>
RAdd(a, b) == RNorm(a[1] * b[2] + b[1] * a[2], a[2] * b[2])
RSub(a, b) == RNorm(a[1] * b[2] - b[1] * a[2], a[2] * b[2])
RMul(a, b) == RNorm(a[1] * b[1], a[2] * b[2])
RDiv(a, b) == RNorm(a[1] * b[2], a[2] * b[1])

RECURSIVE RSum(_)
RSum(seq) == IF seq = <<>> THEN R(0) ELSE RAdd(Head(seq), RSum(Tail(seq)))

ISqrt(n) == CHOOSE k \in 0..n : k * k = n
RSqrt(a) == <<ISqrt(a[1]), ISqrt(a[2])>>

RECURSIVE IPow(_, _)
IPow(b, e) == IF e = 0 THEN 1 ELSE b * IPow(b, e - 1)

\* np.exp of an integer t
RExp(t) == IF t[1] >= 0 THEN <<IPow(3, t[1]), IPow(2, t[1])>>
           ELSE <<IPow(2, 0 - t[1]), IPow(3, 0 - t[1])>>

\* the logarithms the Cholesky diagonals of the model have
ThetaDiag == {0 - 1, 0, 1}

\* np.log of a power of exp
RLog(q) == R(CHOOSE t \in ThetaDiag : RExp(R(t)) = q)

\* the conversion of a float to an integer on assignment into an integer array:
\* towards zero
Trunc(q) == IF q[1] < 0 THEN R(0 - ((0 - q[1]) \div q[2])) ELSE R(q[1] \div q[2])

Cast(dtype, q) == IF dtype = "int" THEN Trunc(q) ELSE q

\* np.tril_indices(n, -1): the strict lower triangle in row-major order; the
\* position of (i, j), j < i, in it, and the pair at position t
TrilPos(i, j) == (i * (i - 1)) \div 2 + j
TrilPair(n, t) == CHOOSE ij \in (0..(n - 1)) \X (0..(n - 1)) : ij[2] < ij[1] /\ TrilPos(ij[1], ij[2]) = t

\* lines 253-255: np.zeros_like(invLam), which has the dtype of invLam, with
\* exp(theta[:n]) assigned to its diagonal and theta[n:] to its strict lower
\* triangle; an assigned value is converted to the dtype of the array
LFactor(n, dtype, th) ==
    [shape |-> <<n, n>>, dtype |-> dtype,
     data |-> [x \in 1..(n * n) |->
                 LET i == (x - 1) \div n
                     j == (x - 1) % n
                 IN IF i = j THEN Cast(dtype, RExp(th.data[i + 1]))
                    ELSE IF j < i THEN Cast(dtype, th.data[n + TrilPos(i, j) + 1])
                    ELSE R(0)]]

\* np.dot(L, L.T)
DotLLT(L) ==
    LET n == L.shape[1]
    IN [shape |-> <<n, n>>, dtype |-> L.dtype,
        data |-> [x \in 1..(n * n) |->
                    RSum([k \in 1..n |-> RMul(At(L, (x - 1) \div n, k - 1),
                                              At(L, (x - 1) % n, k - 1))])]]

\* np.linalg.cholesky of a symmetric positive-definite matrix: the lower factor,
\* an array of floats
RECURSIVE ChoEntry(_, _, _)
ChoEntry(A, i, j) ==
    LET s == RSum([k \in 1..j |-> RMul(ChoEntry(A, i, k - 1), ChoEntry(A, j, k - 1))])
    IN IF i = j THEN RSqrt(RSub(At(A, i, i), s))
       ELSE RDiv(RSub(At(A, i, j), s), ChoEntry(A, j, j))

cholesky(A) ==
    LET n == A.shape[1]
    IN [shape |-> <<n, n>>, dtype |-> "float",
        data |-> [x \in 1..(n * n) |->
                    IF (x - 1) % n <= (x - 1) \div n
                    THEN ChoEntry(A, (x - 1) \div n, (x - 1) % n) ELSE R(0)]]

\* AnisotropicRBF.set_params
set_params(self, invLam) ==
    IF invLam # None
    THEN LET n == self.ndim
             L == cholesky(invLam)
         IN [self EXCEPT
               !.invLam = invLam,
               !.L = L,
               !.theta = [shape |-> <<self.ntheta>>, dtype |-> "float",
                          data |-> [k \in 1..self.ntheta |->
                                      IF k <= n THEN RLog(At(L, k - 1, k - 1))
                                      ELSE LET ij == TrilPair(n, k - 1 - n)
                                           IN At(L, ij[1], ij[2])]]]
    ELSE self

\* AnisotropicRBF.__init__
AnisotropicRBF_init(invLam) ==
    LET n == invLam.shape[1]
    IN set_params([constructed |-> TRUE, ndim |-> n, ntheta |-> (n * (n + 1)) \div 2,
                   invLam |-> None, L |-> None, theta |-> None], invLam)

\* the theta property
theta(self) == self.theta

\* the theta setter
theta_setter(self, th) ==
    LET L == LFactor(self.ndim, self.invLam.dtype, th)
    IN [self EXCEPT !.theta = th, !.L = L, !.invLam = DotLLT(L)]

(***************************************************************************)
(* SpecEmp: EmpiricalKernel objects are constructed and called.            *)
(***************************************************************************)
IdleInterp ==
    /\ InitInterp("None", 0)
    /\ heap = [i \in HeapIds |-> Free]
    /\ call = NoCall

InitEmp ==
    /\ IdleInterp
    /\ emp = NoEmp
    /\ empCall = NoEmpCall
    /\ rbf = NoRbf
    /\ rbfCall = NoRbfCall

EmpX == Vectors(2) \cup Matrices(2, MaxPts)
EmpY == {None} \cup Vectors(2) \cup Matrices(2, 1)

NextEmp ==
    \/ \E f \in Fns : EmpInit(f)
    \/ \E X \in EmpX, Y \in EmpY, eval_gradient \in BOOLEAN : EmpCall(X, Y, eval_gradient)

SpecEmp == InitEmp /\ [][NextEmp]_vars

\* the hyperparameter_cho_factor property: Hyperparameter("ChoFactor", "numeric",
\* (1e-5, 1e5), ntheta), whose bounds are not the string "fixed"
hyperparameter_cho_factor(self) ==
    [name |-> "ChoFactor", value_type |-> "numeric", n_elements |-> self.ntheta, fixed |-> FALSE]

\* the squared Mahalanobis distance of rows i of A and j of B under the metric VI
SqDist(A, i, B, j, VI) ==
    LET n == VI.shape[1]
        d(a) == R(At(A, i, a) - At(B, j, a))
    IN RSum([x \in 1..(n * n) |->
               RMul(RMul(d((x - 1) \div n), At(VI, (x - 1) \div n, (x - 1) % n)),
                    d((x - 1) % n))])

\* exp(-0.5 * dists**2), kept as its exponent; 1 is exp(0)
ExpOf(q) == [exp |-> q]
CovOf(d2) == ExpOf(RMul(<<0 - 1, 2>>, d2))

\* lines 219-228: the gradient of K with respect to theta, of shape (p, p, ntheta);
\* an element is coef * exp(exp)
K_gradient(self, X, K) ==
    LET n == self.ndim
        p == X.shape[1]
        m == self.ntheta
        L_grad(l, i, j) ==
            IF l < n THEN (IF i = l /\ j = l THEN At(self.L, l, l) ELSE R(0))
            ELSE (IF <<i, j>> = TrilPair(n, l - n) THEN R(1) ELSE R(0))
        half(l, i, j) == RSum([k \in 1..n |-> RMul(L_grad(l, i, k - 1), At(self.L, j, k - 1))])
        invLam_grad(l, i, j) == RAdd(half(l, i, j), half(l, j, i))
        dX(i, j, a) == R(At(X, i, a) - At(X, j, a))
        dist_grad(i, j, l) ==
            RSum([x \in 1..(n * n) |->
                    RMul(RMul(dX(i, j, (x - 1) \div n),
                              invLam_grad(l, (x - 1) \div n, (x - 1) % n)),
                         dX(i, j, (x - 1) % n))])
    IN [shape |-> <<p, p, m>>,
        data |-> [x \in 1..(p * p * m) |->
                    LET i == (x - 1) \div (p * m)
                        j == ((x - 1) \div m) % p
                        l == (x - 1) % m
                    IN [coef |-> RMul(<<0 - 1, 2>>, dist_grad(i, j, l)),
                        exp |-> At(K, i, j).exp]]]

NotNoneGradient == "ValueError: Gradient can only be evaluated when Y is None."

\* lines 198-201: pdist, exp, squareform and fill_diagonal
SelfCovariance(self, X) ==
    LET p == X.shape[1]
    IN [shape |-> <<p, p>>,
        data |-> [x \in 1..(p * p) |->
                    LET i == (x - 1) \div p
                        j == (x - 1) % p
                    IN IF i = j THEN ExpOf(R(0))
                       ELSE CovOf(SqDist(X, Min(i, j), X, i + j - Min(i, j), self.invLam))]]

\* lines 206-207: cdist and exp
CrossCovariance(self, X, Y) ==
    LET p == X.shape[1]
        q == Y.shape[1]
    IN [shape |-> <<p, q>>,
        data |-> [x \in 1..(p * q) |->
                    CovOf(SqDist(X, (x - 1) \div q, Y, (x - 1) % q, self.invLam))]]

\* lines 209-231: what is returned of the covariance K
Returned(self, X, K, gradOf, eval_gradient) ==
    IF eval_gradient
    THEN IF hyperparameter_cho_factor(self).fixed
         THEN [err |-> "",
               ret |-> [kind |-> "pair", K |-> K,
                        K_gradient |-> [shape |-> <<X.shape[1], X.shape[1], 0>>, data |-> <<>>]]]
         ELSE [err |-> "",
               ret |-> [kind |-> "pair", K |-> K, K_gradient |-> K_gradient(self, X, gradOf)]]
    ELSE [err |-> "", ret |-> [kind |-> "K", K |-> K]]

\* the wrong __call__: a request for the gradient with Y given is not refused
AnisotropicRBF_call_unrefused(self, X0, Y, eval_gradient) ==
    LET X == atleast_2d(X0)
    IN IF Y = None
       THEN Returned(self, X, SelfCovariance(self, X), SelfCovariance(self, X), eval_gradient)
       ELSE IF Len(Y.shape) # 2
       THEN [err |-> "ValueError: XB must be a 2-dimensional array.", ret |-> None]
       ELSE Returned(self, X, CrossCovariance(self, X, Y), SelfCovariance(self, X),
                     eval_gradient)

\* AnisotropicRBF.__call__
AnisotropicRBF_call(self, X0, Y, eval_gradient) ==
    LET X == atleast_2d(X0)
    IN IF Y = None
       THEN Returned(self, X, SelfCovariance(self, X), SelfCovariance(self, X), eval_gradient)
       ELSE IF eval_gradient THEN [err |-> NotNoneGradient, ret |-> None]
       ELSE IF Len(Y.shape) # 2
       THEN [err |-> "ValueError: XB must be a 2-dimensional array.", ret |-> None]
       ELSE Returned(self, X, CrossCovariance(self, X, Y), CrossCovariance(self, X, Y),
                     eval_gradient)

RbfInit(invLam) ==
    /\ rbf' = AnisotropicRBF_init(invLam)
    /\ rbfCall' = [op |-> "__init__", arg |-> invLam]
    /\ UNCHANGED <<interpVars, empVars>>

RbfSetParams(invLam) ==
    /\ rbf.constructed
    /\ invLam # None => invLam.shape = rbf.invLam.shape
    /\ rbf' = set_params(rbf, invLam)
    /\ rbfCall' = [op |-> "set_params", arg |-> invLam]
    /\ UNCHANGED <<interpVars, empVars>>

RbfSetTheta(th) ==
    /\ rbf.constructed
    /\ th.shape = <<rbf.ntheta>>
    /\ rbf' = theta_setter(rbf, th)
    /\ rbfCall' = [op |-> "theta.setter", arg |-> th]
    /\ UNCHANGED <<interpVars, empVars>>

RbfCall ==
    /\ rbfCall.op = "call"
    /\ \E r \in {AnisotropicRBF_call(rbf, rbfCall.X, rbfCall.Y, rbfCall.eval_gradient)} :
          rbfCall' = [op |-> "__call__", X |-> rbfCall.X, Y |-> rbfCall.Y,
                      eval_gradient |-> rbfCall.eval_gradient, err |-> r.err, ret |-> r.ret]
    /\ UNCHANGED <<rbf, interpVars, empVars>>

(***************************************************************************)
(* The kernels and hyperparameters the model draws.                        *)
(***************************************************************************)
Dims == {1, 2}
Offs == {R(0), <<1, 2>>, R(1)}

NTheta(n) == (n * (n + 1)) \div 2

Thetas(n) ==
    {[shape |-> <<NTheta(n)>>, dtype |-> "float", data |-> d] :
        d \in {t \in [1..NTheta(n) -> {R(x) : x \in ThetaDiag} \cup Offs] :
                  /\ \A k \in 1..n : t[k] \in {R(x) : x \in ThetaDiag}
                  /\ \A k \in (n + 1)..NTheta(n) : t[k] \in Offs}}

\* the symmetric positive-definite matrices L * L.T of the factors the Thetas
\* describe, as arrays of floats and, where every element is an integer, also as
\* arrays of integers
FloatInvLams(n) == {DotLLT(LFactor(n, "float", th)) : th \in Thetas(n)}

InvLams(n) ==
    FloatInvLams(n) \cup
    {[M EXCEPT !.dtype = "int"] :
        M \in {A \in FloatInvLams(n) : \A x \in 1..Len(A.data) : A.data[x][2] = 1}}

(***************************************************************************)
(* SpecRbf: an AnisotropicRBF is constructed, and its matrix and its theta *)
(* are set.                                                                *)
(***************************************************************************)
InitRbf ==
    /\ IdleInterp
    /\ emp = NoEmp
    /\ empCall = NoEmpCall
    /\ rbf = NoRbf
    /\ rbfCall = NoRbfCall

NextRbf ==
    \/ \E n \in Dims : \E invLam \in InvLams(n) : RbfInit(invLam)
    \/ \E n \in Dims : \E invLam \in InvLams(n) \cup {None} : RbfSetParams(invLam)
    \/ \E n \in Dims : \E th \in Thetas(n) : RbfSetTheta(th)

SpecRbf == InitRbf /\ [][NextRbf]_vars

(***************************************************************************)
(* SpecRbfCall: one call of a constructed AnisotropicRBF, on every kernel  *)
(* and every argument of the model.                                        *)
(***************************************************************************)
InitRbfCall ==
    /\ IdleInterp
    /\ emp = NoEmp
    /\ empCall = NoEmpCall
    /\ \E n \in Dims :
          /\ \E invLam \in InvLams(n) : rbf = AnisotropicRBF_init(invLam)
          /\ \E X \in Vectors(n) \cup Matrices(n, MaxPts),
                Y \in {None} \cup Vectors(n) \cup Matrices(n, 1),
                eval_gradient \in BOOLEAN :
                rbfCall = [op |-> "call", X |-> X, Y |-> Y, eval_gradient |-> eval_gradient]

NextRbfCall == RbfCall

SpecRbfCall == InitRbfCall /\ [][NextRbfCall]_vars

(***************************************************************************)
(* Vocabulary of the claims about GPInterp.                                *)
(***************************************************************************)
\* a solve has completed on the interpolator: the regressor is fitted and, with
\* npca > 0, so is the PCA
Fitted == gp.fitted /\ (npca > 0 => (pca.present /\ pca.fitted))

\* the number of columns of the target matrix of the last completed solve
TrainDim == IF npca > 0 THEN pca.n_features ELSE gp.y.shape[2]

\* a non-empty list of stars with finite covariates
FiniteStars(ids) ==
    /\ ids # <<>>
    /\ \A i \in 1..Len(ids) : \A k \in 1..Len(attr_interp) :
          PoolStars[ids[i]].data[attr_interp[k]] # NaN

\* what solve fits on the stars ids
XOf(ids) == NpArray([i \in 1..Len(ids) |-> getProperties(PoolStars[ids[i]])])
yOf(ids) == NpArray([i \in 1..Len(ids) |-> PoolStars[ids[i]].fit.params])

\* the fitted state an interpolate call reads
FittedState == [gp |-> gp, pca |-> IF pca.present /\ pca.fitted THEN pca ELSE AbsentPCA]

Interpolations == {"interpolate", "interpolateList"}

(***************************************************************************)
(* C1.  For a fitted GPInterp and a list of N stars (with or without a     *)
(* prior fit; here: non-empty, finite covariates), interpolateList returns *)
(* exactly N stars, the i-th with the data of the i-th input star, each    *)
(* with a parameter vector as long as the training targets.  The code      *)
(* breaks it: a star without a prior fit gets the whole prediction matrix. *)
(***************************************************************************)
C1_SameOrderAndLength ==
    (call.op = "interpolateList" /\ Fitted /\ FiniteStars(call.stars)) =>
        /\ call.err = ""
        /\ Len(call.ret) = Len(call.stars)
        /\ \A i \in 1..Len(call.ret) :
              /\ heap[call.ret[i]].data = heap[call.stars[i]].data
              /\ heap[call.ret[i]].fit.params.shape = <<TrainDim>>

(***************************************************************************)
(* C2.  The fit of the i-th output star of interpolateList carries row i   *)
(* of the prediction only: StarFit(row i) for an input star without a fit, *)
(* the prior fit's newParams(row i) otherwise.  The code breaks it in the  *)
(* branch without a prior fit.                                             *)
(***************************************************************************)
C2_FitCarriesOwnRow ==
    (call.op = "interpolateList" /\ Fitted /\ FiniteStars(call.stars)) =>
        /\ call.err = ""
        /\ \A i \in 1..Len(call.ret) :
              LET y0 == Rows(_predict(gp, pca, XOf(call.stars)).y)[i]
                  star == heap[call.stars[i]]
              IN heap[call.ret[i]].fit =
                    IF star.fit = None THEN StarFit(y0) ELSE newParams(star.fit, y0)

(***************************************************************************)
(* C3.  solve is transactional on (kernel, GP, PCA): a solve call either   *)
(* ends without error with the regressor, and with npca > 0 the PCA,       *)
(* fitted on this call's stars, or fails and leaves the fitted state as it *)
(* was.  The code breaks it: _fit stores and fits the new PCA before the   *)
(* regressor's fit can fail.                                               *)
(***************************************************************************)
C3_SolveTransactional ==
    [][call'.op = "solve" =>
         \/ /\ call'.err = ""
            /\ kernel' = kernel
            /\ gp'.fitted /\ gp'.X = XOf(call'.stars)
            /\ npca > 0 => (pca'.present /\ pca'.fitted /\ pca'.y = yOf(call'.stars).data)
         \/ /\ call'.err # ""
            /\ kernel' = kernel
            /\ FittedState' = FittedState]_vars

(***************************************************************************)
(* C4.  interpolate and interpolateList on a GPInterp on which no solve    *)
(* has completed raise an error, with npca = 0 as with npca > 0 (here: for *)
(* interpolateList on two or more stars with finite covariates).  The code *)
(* breaks it with npca = 0: the unfitted regressor predicts its prior.     *)
(***************************************************************************)
C4_ErrorBeforeSolve ==
    (call.op = "interpolateList" /\ ~gp.fitted
       /\ Len(call.stars) >= 2 /\ FiniteStars(call.stars)) => call.err # ""

(***************************************************************************)
(* C5.  solve with an empty list of stars raises an error and installs no  *)
(* fitted GP or PCA: the regressor is as before, and the PCA is not a      *)
(* fitted one unless it is the one from before.                            *)
(***************************************************************************)
C5_EmptySolveFails ==
    [][(call'.op = "solve" /\ call'.stars = <<>>) =>
         /\ call'.err # ""
         /\ gp' = gp
         /\ (pca'.present /\ pca'.fitted) => pca' = pca]_vars

C5_Witness ==
    /\ call.op = "solve" /\ call.stars = <<>> /\ call.err # ""
    /\ gp.fitted /\ pca.present

(***************************************************************************)
(* C10.  interpolate, interpolateList and initialize never change an input *)
(* Star (its data, its fit, a fit of None staying None), and every Star    *)
(* they return is a new object, none of the caller's.                      *)
(***************************************************************************)
C10_InputStarsUntouched ==
    /\ \A i \in PoolIds : heap[i] = PoolStars[i]
    /\ call.op \in (Interpolations \cup {"initialize"}) =>
          \A j \in 1..Len(call.ret) :
              /\ call.ret[j] \notin PoolIds
              /\ heap[call.ret[j]] # Free

C10_Witness ==
    /\ call.op = "interpolateList" /\ call.err = "" /\ Len(call.ret) = 2
    /\ \E j \in 1..2 : heap[call.stars[j]].fit = None /\ heap[call.ret[j]].fit # None
    /\ \E j \in 1..2 :
          /\ heap[call.stars[j]].fit # None
          /\ heap[call.ret[j]].fit.params # heap[call.stars[j]].fit.params

(***************************************************************************)
(* C8.  An EmpiricalKernel called with eval_gradient=True fails with a     *)
(* RuntimeError for every X and Y, and fn is not evaluated in that call.   *)
(***************************************************************************)
C8_GradientRefused ==
    (empCall.op = "__call__" /\ empCall.eval_gradient) =>
        /\ empCall.err = "RuntimeError"
        /\ empCall.ret = None
        /\ empCall.fn_evals = 0

C8_Witness ==
    /\ empCall.op = "__call__" /\ empCall.eval_gradient
    /\ empCall.Y # None /\ empCall.X.shape = <<2, 2>>
    /\ empCall.err = "RuntimeError"

(***************************************************************************)
(* C9.  EmpiricalKernel(fn) fails when fn(0, 0) is not 1 and succeeds when *)
(* it is 1: no EmpiricalKernel exists whose fn is not normalized.          *)
(***************************************************************************)
C9_NormalizedOrNoKernel ==
    /\ emp.constructed => fn(emp.fn, 0, 0) = 1
    /\ empCall.op = "__init__" =>
          IF fn(empCall.fn, 0, 0) = 1
          THEN empCall.err = "" /\ emp.constructed /\ emp.fn = empCall.fn
          ELSE empCall.err = "AssertionError"

C9_Witness ==
    /\ empCall.op = "__init__" /\ empCall.fn = "tent2" /\ empCall.err = "AssertionError"
    /\ emp.constructed


(***************************************************************************)
(* C6.  The state (invLam, L, theta) of an AnisotropicRBF is never stale:  *)
(* after construction and any set_params (a symmetric positive-definite    *)
(* matrix, or None) and theta assignments, invLam = L * L.T, L has         *)
(* exp(theta[0:n]) on its diagonal and theta[n:] in its strict lower       *)
(* triangle in row-major order, theta has n(n+1)/2 elements, and theta     *)
(* read after a theta assignment is the vector assigned.  The code breaks  *)
(* it for an invLam given as an array of integers.                         *)
(***************************************************************************)
C6_KernelStateConsistent ==
    rbf.constructed =>
        LET n == rbf.ndim
        IN /\ rbf.invLam.data = DotLLT(rbf.L).data
           /\ theta(rbf).shape = <<(n * (n + 1)) \div 2>>
           /\ \A i \in 0..(n - 1) : \A j \in 0..(n - 1) :
                 At(rbf.L, i, j) =
                    IF i = j THEN RExp(theta(rbf).data[i + 1])
                    ELSE IF j < i THEN theta(rbf).data[n + TrilPos(i, j) + 1]
                    ELSE R(0)
           /\ rbfCall.op = "theta.setter" => theta(rbf) = rbfCall.arg

(***************************************************************************)
(* C7.  An AnisotropicRBF called with Y given and eval_gradient=True fails *)
(* (no covariance, no gradient), fixed hyperparameter or not; with Y given *)
(* (a matrix) and eval_gradient=False it returns the covariance matrix     *)
(* alone, of shape (rows of X, rows of Y); with Y None and                 *)
(* eval_gradient=True it returns the pair (covariance, gradient).          *)
(***************************************************************************)
C7_GradientOnlyWithoutY ==
    rbfCall.op = "__call__" =>
        LET p == atleast_2d(rbfCall.X).shape[1]
        IN /\ (rbfCall.Y # None /\ rbfCall.eval_gradient) =>
                 (rbfCall.err = NotNoneGradient /\ rbfCall.ret = None)
           /\ (rbfCall.Y # None /\ Len(rbfCall.Y.shape) = 2 /\ ~rbfCall.eval_gradient) =>
                 /\ rbfCall.err = ""
                 /\ rbfCall.ret.kind = "K"
                 /\ rbfCall.ret.K.shape = <<p, rbfCall.Y.shape[1]>>
           /\ (rbfCall.Y = None /\ rbfCall.eval_gradient) =>
                 /\ rbfCall.err = ""
                 /\ rbfCall.ret.kind = "pair"
                 /\ rbfCall.ret.K.shape = <<p, p>>
                 /\ rbfCall.ret.K_gradient.shape = <<p, p, rbf.ntheta>>

C7_Witness ==
    /\ rbfCall.op = "__call__" /\ rbfCall.eval_gradient
    /\ rbfCall.Y # None /\ Len(rbfCall.Y.shape) = 2
    /\ rbf.ndim = 2 /\ rbfCall.X.shape = <<2, 2>>
    /\ rbfCall.err = NotNoneGradient


(***************************************************************************)
(* C11.  Between two solve calls the fitted state is immutable: an         *)
(* interpolate or interpolateList call leaves kernel, regressor, PCA,      *)
(* attr_interp and npca as they were, so the same call repeated on the     *)
(* same stars ends the same way and returns the same parameters; the state *)
(* changes only in solve and in initialize.                                *)
(***************************************************************************)
C11_FittedStateImmutable ==
    [][/\ call'.op \in Interpolations =>
             /\ UNCHANGED <<attr_interp, kernel, npca, gp, pca>>
             /\ (call.op \in Interpolations /\ call.stars = call'.stars) =>
                   /\ call'.err = call.err
                   /\ Len(call'.ret) = Len(call.ret)
                   /\ \A i \in 1..Len(call.ret) :
                         heap'[call'.ret[i]].fit.params = heap[call.ret[i]].fit.params
       /\ <<attr_interp, kernel, npca, gp, pca>>' # <<attr_interp, kernel, npca, gp, pca>> =>
             call'.op \in {"solve", "initialize"}]_vars

C11_Witness ==
    /\ call.op = "interpolate" /\ call.err = "" /\ Len(call.ret) = 1
    /\ npca > 0 /\ Fitted
    /\ heap[call.ret[1]].fit.params # heap[call.stars[1]].fit.params


====
